---------------------------- MODULE Spec2Model ----------------------------
(***************************************************************************)
(* A model of deco.py, a library of function decorators.  Each decorator   *)
(* of the library whose behaviour depends on state, timing or concurrency  *)
(* (singleton, memoize, retry_on_failure, timeout, max_memory, threaded)   *)
(* is a state machine over its own variables; a specification per          *)
(* decorator runs it while the other decorators stay idle.                  *)
(*                                                                         *)
(* A step of a wrapper is one source line (Python threads may be switched  *)
(* between any two bytecodes, and no wrapper takes a lock).  The decorated *)
(* function is opaque: it is invoked, runs, and ends with a value or an    *)
(* exception chosen nondeterministically.                                  *)
(***************************************************************************)
EXTENDS Integers, Sequences, FiniteSets, TLC

(***************************************************************************)
(* Bounds of the model.                                                    *)
(***************************************************************************)
NumCallers == 2
MaxCalls == 3
NumArgs == 2
NumValues == 2

Callers == 1..NumCallers
Args == 1..NumArgs
Values == 1..NumValues

(***************************************************************************)
(* Outcomes of a call: a returned value or a raised exception.  None is    *)
(* Python's None.  "Exception" stands for any failure of the decorated     *)
(* function that derives from Exception, "BaseException" for one that does *)
(* not (KeyboardInterrupt, SystemExit, GeneratorExit).                     *)
(***************************************************************************)
None == 0
NoOutcome == [kind |-> "none", value |-> None, exc |-> "none"]
Ret(v) == [kind |-> "return", value |-> v, exc |-> "none"]
Raise(e) == [kind |-> "raise", value |-> None, exc |-> e]
WorkFailures == {"Exception", "BaseException"}
FuncOutcomes == {Ret(v) : v \in Values} \cup {Raise(e) : e \in WorkFailures}

VARIABLES
  \* singleton
  ran,          \* Wrapper.ran
  s_pc,         \* per caller: position in Wrapper.__call__
  s_args,       \* per caller: the arguments of its current call
  s_calls,      \* calls made so far (bounded by MaxCalls)
  s_sawFalse,   \* how many times `if self.ran` was evaluated to False
  s_invoked,    \* the arguments of every invocation of self.func, in order
  s_returned,   \* the outcome of every finished invocation of self.func
  s_log         \* finished calls of the wrapper: [caller, args, outcome]

VARIABLES
  \* memoize
  cache,        \* the closure's cache: a function from argument tuples to results
  m_pc,         \* per caller: position in wrapper
  m_args,       \* per caller: args
  m_result,     \* per caller: the local `result`
  m_inv,        \* per caller: invocations of func made by its current call
  m_calls,      \* calls made so far (bounded by MaxCalls)
  m_invoked,    \* per argument tuple: how many times func was invoked with it
  m_log         \* finished calls: [caller, args, outcome, invocations]

VARIABLES
  \* retry_on_failure
  runs,         \* the decorator's argument
  r_pc,         \* position in wrapper ("nowrap" before the decorator is applied)
  r_i,          \* the loop variable i
  r_attempts,   \* the outcomes of the invocations of func made by the current call
  r_out,        \* what the current call handed to its caller
  r_calls       \* calls made so far (bounded by MaxCalls)

VARIABLES
  \* timeout (one thread: signal.signal works in the main thread only)
  seconds,      \* the decorator's argument
  t_pc,         \* position in wrapper ("nowrap" before the decorator is applied)
  handler,      \* the process's SIGALRM handler
  old_handler,  \* the local old_handler
  alarm,        \* seconds until the pending alarm expires; 0: no alarm pending
  t_sig,        \* SIGALRM was delivered and its Python handler has not run yet
  t_exc,        \* the exception in flight when the finally block is entered
  t_result,     \* the local `result`
  t_out,        \* what the current call handed to its caller
  t_inner,      \* the outcome func ended with on its own (NoOutcome: it did not)
  t_first,      \* which came first: "inner" (func ended) or "timer" (alarm expired)
  t_calls       \* calls made so far (bounded by MaxCalls)

VARIABLES
  \* max_memory
  rlimit,          \* the process's RLIMIT_AS: <<soft, hard>>
  g_started,       \* a guarded call has been made
  g_ambient,       \* RLIMIT_AS when the first guarded call was entered
  g_pc,            \* per caller: position in wrapper
  g_byte,          \* per caller: the decorator's argument of the unit it calls
  g_need,          \* per caller: the address space its func asks for
  original_limit,  \* per caller: the local original_limit
  g_before,        \* per caller: RLIMIT_AS when its call was entered
  g_ineffect,      \* per caller: the soft limit when its func was entered
  g_exc,           \* per caller: the exception in flight in the finally block
  g_result,        \* per caller: the local `result`
  g_calls,         \* calls made so far (bounded by MaxCalls)
  g_last           \* the call that ended last: [caller, byte, outcome, before,
                   \* after, ineffect, invoked]

VARIABLES
  \* threaded
  num_threads,  \* the decorator's argument
  f_pc,         \* position in wrapper ("nowrap" before the decorator is applied)
  f_args,       \* the arguments of the call
  threads,      \* the local list threads: per started thread, its state and
                \* the arguments its func was given
  f_j,          \* the index of the thread the second loop joins next
  counter,      \* the shared counter func increments under a lock
  f_out         \* what the call handed to its caller

VARIABLES
  \* timeout inside timeout: the frame of the wrapper that the work of the
  \* outer wrapper calls (the process's handler and alarm are shared)
  n_seconds,      \* the argument of the decorator of the nested unit
  n_pc,           \* position in the nested wrapper ("nowrap", "idle", ...)
  n_old_handler,  \* the nested wrapper's local old_handler
  n_exc,          \* the exception in flight in the nested finally block
  n_result,       \* the nested wrapper's local `result`
  n_out,          \* what the nested call handed to the outer work
  n_worked        \* seconds the work of the outer wrapper has been running

sVars == <<ran, s_pc, s_args, s_calls, s_sawFalse, s_invoked, s_returned, s_log>>
mVars == <<cache, m_pc, m_args, m_result, m_inv, m_calls, m_invoked, m_log>>
rVars == <<runs, r_pc, r_i, r_attempts, r_out, r_calls>>

tVars == <<seconds, t_pc, handler, old_handler, alarm, t_sig, t_exc, t_result,
           t_out, t_inner, t_first, t_calls>>
gVars == <<rlimit, g_started, g_ambient, g_pc, g_byte, g_need, original_limit, g_before,
           g_ineffect, g_exc, g_result, g_calls, g_last>>
fVars == <<num_threads, f_pc, f_args, threads, f_j, counter, f_out>>

nVars == <<n_seconds, n_pc, n_old_handler, n_exc, n_result, n_out, n_worked>>

vars == <<sVars, mVars, rVars, tVars, gVars, fVars, nVars>>

\* A step of one decorator's wrapper leaves the state of the others alone.
SFrame == UNCHANGED <<mVars, rVars, tVars, gVars, fVars, nVars>>
MFrame == UNCHANGED <<sVars, rVars, tVars, gVars, fVars, nVars>>
RFrame == UNCHANGED <<sVars, mVars, tVars, gVars, fVars, nVars>>
TFrame == UNCHANGED <<sVars, mVars, rVars, gVars, fVars, nVars>>
GFrame == UNCHANGED <<sVars, mVars, rVars, tVars, fVars, nVars>>
FFrame == UNCHANGED <<sVars, mVars, rVars, tVars, gVars, nVars>>

(***************************************************************************)
(* singleton (deco.py 174-194)                                             *)
(***************************************************************************)
AlreadyRun == "This function has already been run"

SInit ==
  /\ ran = FALSE
  /\ s_pc = [t \in Callers |-> "idle"]
  /\ s_args = [t \in Callers |-> 0]
  /\ s_calls = 0
  /\ s_sawFalse = 0
  /\ s_invoked = <<>>
  /\ s_returned = <<>>
  /\ s_log = <<>>

\* A caller enters Wrapper.__call__(*args).
SCall(t, a) ==
  /\ s_pc[t] = "idle"
  /\ s_calls < MaxCalls
  /\ s_calls' = s_calls + 1
  /\ s_pc' = [s_pc EXCEPT ![t] = "test"]
  /\ s_args' = [s_args EXCEPT ![t] = a]
  /\ UNCHANGED <<ran, s_sawFalse, s_invoked, s_returned, s_log>>

\* line 189-190: if self.ran: raise Exception(...)
STest(t) ==
  /\ s_pc[t] = "test"
  /\ IF ran
       THEN /\ s_pc' = [s_pc EXCEPT ![t] = "idle"]
            /\ s_log' = Append(s_log, [caller |-> t, args |-> s_args[t],
                                       outcome |-> Raise(AlreadyRun)])
            /\ UNCHANGED s_sawFalse
       ELSE /\ s_pc' = [s_pc EXCEPT ![t] = "set"]
            /\ s_sawFalse' = s_sawFalse + 1
            /\ UNCHANGED s_log
  /\ UNCHANGED <<ran, s_args, s_calls, s_invoked, s_returned>>

\* SSetRan with the assignment of line 191 left out
SSetRanMutant(t) ==
  /\ s_pc[t] = "set"
  /\ s_pc' = [s_pc EXCEPT ![t] = "invoke"]
  /\ UNCHANGED <<ran, s_args, s_calls, s_sawFalse, s_invoked, s_returned, s_log>>

\* line 191: self.ran = True
SSetRan(t) ==
  /\ s_pc[t] = "set"
  /\ ran' = TRUE
  /\ s_pc' = [s_pc EXCEPT ![t] = "invoke"]
  /\ UNCHANGED <<s_args, s_calls, s_sawFalse, s_invoked, s_returned, s_log>>

\* line 192: self.func(*args, **kwargs) is entered
SInvoke(t) ==
  /\ s_pc[t] = "invoke"
  /\ s_invoked' = Append(s_invoked, s_args[t])
  /\ s_pc' = [s_pc EXCEPT ![t] = "running"]
  /\ UNCHANGED <<ran, s_args, s_calls, s_sawFalse, s_returned, s_log>>

\* SFinish with the flag cleared again when func failed
SFinishMutant(t, o) ==
  /\ s_pc[t] = "running"
  /\ s_returned' = Append(s_returned, o)
  /\ s_log' = Append(s_log, [caller |-> t, args |-> s_args[t], outcome |-> o])
  /\ s_pc' = [s_pc EXCEPT ![t] = "idle"]
  /\ ran' = (o.kind = "return")
  /\ UNCHANGED <<s_args, s_calls, s_sawFalse, s_invoked>>

\* line 192: self.func ends with outcome o, which `return` hands to the caller
SFinish(t, o) ==
  /\ s_pc[t] = "running"
  /\ s_returned' = Append(s_returned, o)
  /\ s_log' = Append(s_log, [caller |-> t, args |-> s_args[t], outcome |-> o])
  /\ s_pc' = [s_pc EXCEPT ![t] = "idle"]
  /\ UNCHANGED <<ran, s_args, s_calls, s_sawFalse, s_invoked>>

SStep(t) ==
  \/ \E a \in Args : SCall(t, a) /\ SFrame
  \/ STest(t) /\ SFrame
  \/ SSetRan(t) /\ SFrame
  \/ SInvoke(t) /\ SFrame
  \/ \E o \in FuncOutcomes : SFinish(t, o) /\ SFrame

(***************************************************************************)
(* memoize (deco.py 50-66)                                                 *)
(***************************************************************************)
MInit ==
  /\ cache = [k \in {} |-> None]
  /\ m_pc = [t \in Callers |-> "idle"]
  /\ m_args = [t \in Callers |-> 0]
  /\ m_result = [t \in Callers |-> None]
  /\ m_inv = [t \in Callers |-> 0]
  /\ m_calls = 0
  /\ m_invoked = [a \in Args |-> 0]
  /\ m_log = <<>>

\* cache[k] = v
CacheSet(c, k, v) == [x \in (DOMAIN c) \cup {k} |-> IF x = k THEN v ELSE c[x]]

\* A caller enters wrapper(*args).
MCall(t, a) ==
  /\ m_pc[t] = "idle"
  /\ m_calls < MaxCalls
  /\ m_calls' = m_calls + 1
  /\ m_pc' = [m_pc EXCEPT ![t] = "lookup"]
  /\ m_args' = [m_args EXCEPT ![t] = a]
  /\ m_inv' = [m_inv EXCEPT ![t] = 0]
  /\ UNCHANGED <<cache, m_result, m_invoked, m_log>>

\* line 61: if args in cache
MLookup(t) ==
  /\ m_pc[t] = "lookup"
  /\ m_pc' = [m_pc EXCEPT ![t] = IF m_args[t] \in DOMAIN cache THEN "hit" ELSE "invoke"]
  /\ UNCHANGED <<cache, m_args, m_result, m_inv, m_calls, m_invoked, m_log>>

\* line 62: return cache[args]
MHit(t) ==
  /\ m_pc[t] = "hit"
  /\ m_log' = Append(m_log, [caller |-> t, args |-> m_args[t],
                             outcome |-> Ret(cache[m_args[t]]),
                             invocations |-> m_inv[t]])
  /\ m_pc' = [m_pc EXCEPT ![t] = "idle"]
  /\ UNCHANGED <<cache, m_args, m_result, m_inv, m_calls, m_invoked>>

\* line 63: func(*args) is entered
MInvoke(t) ==
  /\ m_pc[t] = "invoke"
  /\ m_invoked' = [m_invoked EXCEPT ![m_args[t]] = @ + 1]
  /\ m_inv' = [m_inv EXCEPT ![t] = @ + 1]
  /\ m_pc' = [m_pc EXCEPT ![t] = "running"]
  /\ UNCHANGED <<cache, m_args, m_result, m_calls, m_log>>

\* MFinish with a failure of func cached (as None) before it is raised
MFinishMutant(t, o) ==
  /\ m_pc[t] = "running"
  /\ IF o.kind = "return"
       THEN /\ m_result' = [m_result EXCEPT ![t] = o.value]
            /\ m_pc' = [m_pc EXCEPT ![t] = "store"]
            /\ UNCHANGED <<m_log, cache>>
       ELSE /\ m_log' = Append(m_log, [caller |-> t, args |-> m_args[t],
                                       outcome |-> o, invocations |-> m_inv[t]])
            /\ m_pc' = [m_pc EXCEPT ![t] = "idle"]
            /\ cache' = CacheSet(cache, m_args[t], None)
            /\ UNCHANGED m_result
  /\ UNCHANGED <<m_args, m_inv, m_calls, m_invoked>>

\* line 63: func ends; its value is bound to `result`, its exception leaves wrapper
MFinish(t, o) ==
  /\ m_pc[t] = "running"
  /\ IF o.kind = "return"
       THEN /\ m_result' = [m_result EXCEPT ![t] = o.value]
            /\ m_pc' = [m_pc EXCEPT ![t] = "store"]
            /\ UNCHANGED m_log
       ELSE /\ m_log' = Append(m_log, [caller |-> t, args |-> m_args[t],
                                       outcome |-> o, invocations |-> m_inv[t]])
            /\ m_pc' = [m_pc EXCEPT ![t] = "idle"]
            /\ UNCHANGED m_result
  /\ UNCHANGED <<cache, m_args, m_inv, m_calls, m_invoked>>

\* MStore with the assignment of line 64 left out
MStoreMutant(t) ==
  /\ m_pc[t] = "store"
  /\ m_pc' = [m_pc EXCEPT ![t] = "return"]
  /\ UNCHANGED <<cache, m_args, m_result, m_inv, m_calls, m_invoked, m_log>>

\* MStore with a cache that keeps the latest entry only
MStoreEvictMutant(t) ==
  /\ m_pc[t] = "store"
  /\ cache' = CacheSet([k \in {} |-> None], m_args[t], m_result[t])
  /\ m_pc' = [m_pc EXCEPT ![t] = "return"]
  /\ UNCHANGED <<m_args, m_result, m_inv, m_calls, m_invoked, m_log>>

\* line 64: cache[args] = result
MStore(t) ==
  /\ m_pc[t] = "store"
  /\ cache' = CacheSet(cache, m_args[t], m_result[t])
  /\ m_pc' = [m_pc EXCEPT ![t] = "return"]
  /\ UNCHANGED <<m_args, m_result, m_inv, m_calls, m_invoked, m_log>>

\* line 65: return result
MReturn(t) ==
  /\ m_pc[t] = "return"
  /\ m_log' = Append(m_log, [caller |-> t, args |-> m_args[t],
                             outcome |-> Ret(m_result[t]),
                             invocations |-> m_inv[t]])
  /\ m_pc' = [m_pc EXCEPT ![t] = "idle"]
  /\ UNCHANGED <<cache, m_args, m_result, m_inv, m_calls, m_invoked>>

MStep(t) ==
  \/ \E a \in Args : MCall(t, a) /\ MFrame
  \/ MLookup(t) /\ MFrame
  \/ MHit(t) /\ MFrame
  \/ MInvoke(t) /\ MFrame
  \/ \E o \in FuncOutcomes : MFinish(t, o) /\ MFrame
  \/ MStore(t) /\ MFrame
  \/ MReturn(t) /\ MFrame

(***************************************************************************)
(* retry_on_failure (deco.py 69-89)                                        *)
(***************************************************************************)
MaxRuns == 3
RunsChoices == (-1)..MaxRuns

RInit ==
  /\ runs = 0
  /\ r_pc = "nowrap"
  /\ r_i = 0
  /\ r_attempts = <<>>
  /\ r_out = NoOutcome
  /\ r_calls = 0

\* retry_on_failure(runs)(func): the decorator is applied
RWrap(n) ==
  /\ r_pc = "nowrap"
  /\ runs' = n
  /\ r_pc' = "idle"
  /\ UNCHANGED <<r_i, r_attempts, r_out, r_calls>>

\* The caller enters wrapper(*args, **kwargs); range(runs) starts at 0.
RCall ==
  /\ r_pc \in {"idle", "done"}
  /\ r_calls < MaxCalls
  /\ r_calls' = r_calls + 1
  /\ r_i' = 0
  /\ r_attempts' = <<>>
  /\ r_out' = NoOutcome
  /\ r_pc' = "loop"
  /\ UNCHANGED runs

\* line 82: for i in range(runs); an exhausted range falls off the end of
\* wrapper, which returns None.  line 84: func is entered.
RLoop ==
  /\ r_pc = "loop"
  /\ IF r_i < runs
       THEN /\ r_pc' = "running"
            /\ UNCHANGED r_out
       ELSE /\ r_out' = Ret(None)
            /\ r_pc' = "done"
  /\ UNCHANGED <<runs, r_i, r_attempts, r_calls>>

\* RFinish with `return` left out of line 84: the loop goes on after a
\* successful attempt that is not the last one
RFinishMutant(o) ==
  /\ r_pc = "running"
  /\ r_attempts' = Append(r_attempts, o)
  /\ IF o.kind = "raise" /\ o.exc = "Exception"
       THEN /\ r_pc' = "except"
            /\ UNCHANGED <<r_out, r_i>>
       ELSE IF o.kind = "return" /\ r_i < runs - 1
              THEN /\ r_i' = r_i + 1
                   /\ r_pc' = "loop"
                   /\ UNCHANGED r_out
              ELSE /\ r_out' = o
                   /\ r_pc' = "done"
                   /\ UNCHANGED r_i
  /\ UNCHANGED <<runs, r_calls>>

\* line 84-85: func ends.  Its value is returned; `except Exception` catches
\* an exception that derives from Exception and lets any other one through.
RFinish(o) ==
  /\ r_pc = "running"
  /\ r_attempts' = Append(r_attempts, o)
  /\ IF o.kind = "raise" /\ o.exc = "Exception"
       THEN /\ r_pc' = "except"
            /\ UNCHANGED r_out
       ELSE /\ r_out' = o
            /\ r_pc' = "done"
  /\ UNCHANGED <<runs, r_i, r_calls>>

\* RExcept with line 86 off by one: if i == runs - 2
RExceptMutant ==
  /\ r_pc = "except"
  /\ IF r_i = runs - 2
       THEN /\ r_out' = r_attempts[Len(r_attempts)]
            /\ r_pc' = "done"
            /\ UNCHANGED r_i
       ELSE /\ r_i' = r_i + 1
            /\ r_pc' = "loop"
            /\ UNCHANGED r_out
  /\ UNCHANGED <<runs, r_attempts, r_calls>>

\* line 86-87: if i == runs - 1: raise; otherwise the next iteration
RExcept ==
  /\ r_pc = "except"
  /\ IF r_i = runs - 1
       THEN /\ r_out' = r_attempts[Len(r_attempts)]
            /\ r_pc' = "done"
            /\ UNCHANGED r_i
       ELSE /\ r_i' = r_i + 1
            /\ r_pc' = "loop"
            /\ UNCHANGED r_out
  /\ UNCHANGED <<runs, r_attempts, r_calls>>

RStep ==
  \/ \E n \in RunsChoices : RWrap(n) /\ RFrame
  \/ RCall /\ RFrame
  \/ RLoop /\ RFrame
  \/ \E o \in FuncOutcomes : RFinish(o) /\ RFrame
  \/ RExcept /\ RFrame

(***************************************************************************)
(* timeout (deco.py 196-219)                                               *)
(*                                                                         *)
(* signal.alarm(n) asks the kernel for a SIGALRM in n seconds; alarm(0)    *)
(* cancels a pending alarm.  When the alarm expires the interpreter's      *)
(* C-level handler notes the signal; the Python handler runs later, in the *)
(* main thread, between two bytecodes, and what it raises is raised there. *)
(***************************************************************************)
MaxSeconds == 2
SecondsChoices == 0..MaxSeconds

TInit ==
  /\ seconds = 0
  /\ t_pc = "nowrap"
  /\ handler = "SIG_DFL"
  /\ old_handler = "SIG_DFL"
  /\ alarm = 0
  /\ t_sig = FALSE
  /\ t_exc = "none"
  /\ t_result = None
  /\ t_out = NoOutcome
  /\ t_inner = NoOutcome
  /\ t_first = "none"
  /\ t_calls = 0

\* timeout(seconds)(func): the decorator is applied
TWrap(n) ==
  /\ t_pc = "nowrap"
  /\ seconds' = n
  /\ t_pc' = "idle"
  /\ UNCHANGED <<handler, old_handler, alarm, t_sig, t_exc, t_result, t_out,
                 t_inner, t_first, t_calls>>

\* The caller enters wrapper(*args, **kwargs).
TCall ==
  /\ t_pc \in {"idle", "done"}
  /\ t_calls < MaxCalls
  /\ t_calls' = t_calls + 1
  /\ t_pc' = "signal"
  /\ t_exc' = "none"
  /\ t_result' = None
  /\ t_out' = NoOutcome
  /\ t_inner' = NoOutcome
  /\ t_first' = "none"
  /\ UNCHANGED <<seconds, handler, old_handler, alarm, t_sig>>

\* line 210: old_handler = signal.signal(signal.SIGALRM, timeout_handler)
TSetHandler ==
  /\ t_pc = "signal"
  /\ old_handler' = handler
  /\ handler' = "timeout_handler"
  /\ t_pc' = "alarm"
  /\ UNCHANGED <<seconds, alarm, t_sig, t_exc, t_result, t_out, t_inner,
                 t_first, t_calls>>

\* line 211: signal.alarm(seconds)
TAlarm ==
  /\ t_pc = "alarm"
  /\ alarm' = seconds
  /\ t_pc' = "try"
  /\ UNCHANGED <<seconds, handler, old_handler, t_sig, t_exc, t_result, t_out,
                 t_inner, t_first, t_calls>>

\* line 212-213: the try block is entered and func is called
TInvoke ==
  /\ t_pc = "try"
  /\ t_pc' = "inner"
  /\ UNCHANGED <<seconds, handler, old_handler, alarm, t_sig, t_exc, t_result,
                 t_out, t_inner, t_first, t_calls>>

\* line 213: func ends on its own with outcome o; the finally block is next
TInnerFinish(o) ==
  /\ t_pc = "inner"
  /\ t_inner' = o
  /\ t_first' = IF t_first = "none" THEN "inner" ELSE t_first
  /\ t_result' = o.value
  /\ t_exc' = o.exc
  /\ t_pc' = "finally_alarm"
  /\ UNCHANGED <<seconds, handler, old_handler, alarm, t_sig, t_out, t_calls>>

\* A second of wall-clock time passes while an alarm is pending; when the
\* alarm expires the kernel delivers SIGALRM to the process.
TTick ==
  /\ alarm > 0
  /\ alarm' = alarm - 1
  /\ IF alarm = 1
       THEN /\ t_sig' = TRUE
            /\ t_first' = IF t_first = "none" THEN "timer" ELSE t_first
       ELSE UNCHANGED <<t_sig, t_first>>
  /\ UNCHANGED <<seconds, t_pc, handler, old_handler, t_exc, t_result, t_out,
                 t_inner, t_calls>>

\* line 208-209: timeout_handler runs and raises TimeoutError where the main
\* thread is.  Inside the try block (func running) the exception leaves func
\* and the finally block is entered with it; before the try block, or inside
\* the finally block, it leaves wrapper at once.
THandler ==
  /\ t_sig
  /\ handler = "timeout_handler"
  /\ t_pc \in {"try", "inner", "finally_alarm", "finally_restore"}
  /\ t_sig' = FALSE
  /\ IF t_pc = "inner"
       THEN /\ t_exc' = "TimeoutError"
            /\ t_pc' = "finally_alarm"
            /\ UNCHANGED t_out
       ELSE /\ t_out' = Raise("TimeoutError")
            /\ t_pc' = "done"
            /\ UNCHANGED t_exc
  /\ UNCHANGED <<seconds, handler, old_handler, alarm, t_result, t_inner,
                 t_first, t_calls>>

\* line 215: signal.alarm(0)
TCancelAlarm ==
  /\ t_pc = "finally_alarm"
  /\ alarm' = 0
  /\ t_pc' = "finally_restore"
  /\ UNCHANGED <<seconds, handler, old_handler, t_sig, t_exc, t_result, t_out,
                 t_inner, t_first, t_calls>>

\* line 216: signal.signal(signal.SIGALRM, old_handler); signal.signal runs
\* the handler of a noted signal before it changes the handler
TRestore ==
  /\ t_pc = "finally_restore"
  /\ ~t_sig
  /\ handler' = old_handler
  /\ t_pc' = "exit"
  /\ UNCHANGED <<seconds, old_handler, alarm, t_sig, t_exc, t_result, t_out,
                 t_inner, t_first, t_calls>>

\* line 217: return result, or the exception in flight is raised again
TExit ==
  /\ t_pc = "exit"
  /\ t_out' = IF t_exc = "none" THEN Ret(t_result) ELSE Raise(t_exc)
  /\ t_pc' = "done"
  /\ UNCHANGED <<seconds, handler, old_handler, alarm, t_sig, t_exc, t_result,
                 t_inner, t_first, t_calls>>

TStep ==
  \/ \E n \in SecondsChoices : TWrap(n) /\ TFrame
  \/ TCall /\ TFrame
  \/ TSetHandler /\ TFrame
  \/ TAlarm /\ TFrame
  \/ TInvoke /\ TFrame
  \/ \E o \in FuncOutcomes : TInnerFinish(o) /\ TFrame
  \/ TTick /\ TFrame
  \/ THandler /\ TFrame
  \/ TCancelAlarm /\ TFrame
  \/ TRestore /\ TFrame
  \/ TExit /\ TFrame

(***************************************************************************)
(* max_memory (deco.py 221-241)                                            *)
(*                                                                         *)
(* RLIMIT_AS is one pair <<soft, hard>> of the process.  setrlimit refuses *)
(* (ValueError) a soft limit above the hard limit and a hard limit above   *)
(* the current one; an allocation that would take the address space above  *)
(* the soft limit fails, which Python raises as MemoryError.               *)
(***************************************************************************)
MaxByte == 2
RLIM_INFINITY == -1
Limits == {RLIM_INFINITY} \cup (0..MaxByte)
ByteChoices == Limits
Needs == 1..MaxByte

\* a <= b for limits, RLIM_INFINITY being above every number
LimLeq(a, b) == b = RLIM_INFINITY \/ (a # RLIM_INFINITY /\ a <= b)

\* setrlimit(RLIMIT_AS, new) is accepted when the limits are cur
SetrlimitOk(cur, new) == LimLeq(new[1], new[2]) /\ LimLeq(new[2], cur[2])

GInit ==
  /\ rlimit = <<RLIM_INFINITY, RLIM_INFINITY>>
  /\ g_started = FALSE
  /\ g_ambient = <<RLIM_INFINITY, RLIM_INFINITY>>
  /\ g_pc = [t \in Callers |-> "idle"]
  /\ g_byte = [t \in Callers |-> 0]
  /\ g_need = [t \in Callers |-> 0]
  /\ original_limit = [t \in Callers |-> <<RLIM_INFINITY, RLIM_INFINITY>>]
  /\ g_before = [t \in Callers |-> <<RLIM_INFINITY, RLIM_INFINITY>>]
  /\ g_ineffect = [t \in Callers |-> RLIM_INFINITY]
  /\ g_exc = [t \in Callers |-> "none"]
  /\ g_result = [t \in Callers |-> None]
  /\ g_calls = 0
  /\ g_last = [caller |-> 0, byte |-> 0, outcome |-> NoOutcome,
               before |-> <<RLIM_INFINITY, RLIM_INFINITY>>,
               after |-> <<RLIM_INFINITY, RLIM_INFINITY>>,
               ineffect |-> RLIM_INFINITY, invoked |-> FALSE]

\* wrapper is left: its frame, and the locals in it, are gone
GLeave(t) ==
  /\ g_pc' = [g_pc EXCEPT ![t] = "idle"]
  /\ g_byte' = [g_byte EXCEPT ![t] = 0]
  /\ g_need' = [g_need EXCEPT ![t] = 0]
  /\ original_limit' = [original_limit EXCEPT ![t] = <<RLIM_INFINITY, RLIM_INFINITY>>]
  /\ g_before' = [g_before EXCEPT ![t] = <<RLIM_INFINITY, RLIM_INFINITY>>]
  /\ g_ineffect' = [g_ineffect EXCEPT ![t] = RLIM_INFINITY]
  /\ g_exc' = [g_exc EXCEPT ![t] = "none"]
  /\ g_result' = [g_result EXCEPT ![t] = None]

\* The limits the process runs under when the first guarded call is made
\* (set by its parent or its shell; a process may lower them, never raise
\* the hard one).
GAmbient(soft, hard) ==
  /\ ~g_started
  /\ SetrlimitOk(rlimit, <<soft, hard>>)
  /\ <<soft, hard>> # rlimit
  /\ rlimit' = <<soft, hard>>
  /\ UNCHANGED <<g_started, g_ambient, g_pc, g_byte, g_need, original_limit, g_before,
                 g_ineffect, g_exc, g_result, g_calls, g_last>>

\* A caller enters the wrapper of max_memory(b)(func); its func will ask
\* for `need` bytes of address space.
GCall(t, b, need) ==
  /\ g_pc[t] = "idle"
  /\ g_calls < MaxCalls
  /\ g_calls' = g_calls + 1
  /\ g_started' = TRUE
  /\ g_ambient' = IF g_started THEN g_ambient ELSE rlimit
  /\ g_pc' = [g_pc EXCEPT ![t] = "getrlimit"]
  /\ g_byte' = [g_byte EXCEPT ![t] = b]
  /\ g_need' = [g_need EXCEPT ![t] = need]
  /\ g_before' = [g_before EXCEPT ![t] = rlimit]
  /\ g_exc' = [g_exc EXCEPT ![t] = "none"]
  /\ g_result' = [g_result EXCEPT ![t] = None]
  /\ UNCHANGED <<rlimit, original_limit, g_ineffect, g_last>>

\* line 233: original_limit = resource.getrlimit(resource.RLIMIT_AS)
GGetrlimit(t) ==
  /\ g_pc[t] = "getrlimit"
  /\ original_limit' = [original_limit EXCEPT ![t] = rlimit]
  /\ g_pc' = [g_pc EXCEPT ![t] = "setrlimit"]
  /\ UNCHANGED <<rlimit, g_started, g_ambient, g_byte, g_need, g_before, g_ineffect,
                 g_exc, g_result, g_calls, g_last>>

\* line 234: resource.setrlimit(resource.RLIMIT_AS, (byte, original_limit[1]));
\* it is outside the try block, so its ValueError leaves wrapper at once
GSetrlimit(t) ==
  /\ g_pc[t] = "setrlimit"
  /\ LET new == <<g_byte[t], original_limit[t][2]>> IN
       IF SetrlimitOk(rlimit, new)
         THEN /\ rlimit' = new
              /\ g_pc' = [g_pc EXCEPT ![t] = "invoke"]
              /\ UNCHANGED <<g_byte, g_need, original_limit, g_before,
                             g_ineffect, g_exc, g_result, g_last>>
         ELSE /\ g_last' = [caller |-> t, byte |-> g_byte[t],
                            outcome |-> Raise("ValueError"),
                            before |-> g_before[t], after |-> rlimit,
                            ineffect |-> g_ineffect[t], invoked |-> FALSE]
              /\ GLeave(t)
              /\ UNCHANGED rlimit
  /\ UNCHANGED <<g_started, g_ambient, g_calls>>

\* line 236: func(*args, **kwargs) is entered
GInvoke(t) ==
  /\ g_pc[t] = "invoke"
  /\ g_ineffect' = [g_ineffect EXCEPT ![t] = rlimit[1]]
  /\ g_pc' = [g_pc EXCEPT ![t] = "running"]
  /\ UNCHANGED <<rlimit, g_started, g_ambient, g_byte, g_need, original_limit, g_before,
                 g_exc, g_result, g_calls, g_last>>

\* line 236: func ends: with MemoryError when what it asks for is above the
\* soft limit of the process, with an outcome of its own otherwise
GFinish(t, o) ==
  /\ g_pc[t] = "running"
  /\ IF LimLeq(g_need[t], rlimit[1])
       THEN o \in FuncOutcomes
       ELSE o = Raise("MemoryError")
  /\ g_result' = [g_result EXCEPT ![t] = o.value]
  /\ g_exc' = [g_exc EXCEPT ![t] = o.exc]
  /\ g_pc' = [g_pc EXCEPT ![t] = "restore"]
  /\ UNCHANGED <<rlimit, g_started, g_ambient, g_byte, g_need, original_limit, g_before,
                 g_ineffect, g_calls, g_last>>

\* GRestore with line 238 after the try statement instead of in its finally
\* block: an exception of func skips it
GRestoreMutant(t) ==
  /\ g_pc[t] = "restore"
  /\ IF g_exc[t] = "none"
       THEN rlimit' = original_limit[t]
       ELSE UNCHANGED rlimit
  /\ g_pc' = [g_pc EXCEPT ![t] = "exit"]
  /\ UNCHANGED <<g_started, g_ambient, g_byte, g_need, original_limit, g_before,
                 g_ineffect, g_exc, g_result, g_calls, g_last>>

\* line 238: resource.setrlimit(resource.RLIMIT_AS, original_limit)
GRestore(t) ==
  /\ g_pc[t] = "restore"
  /\ IF SetrlimitOk(rlimit, original_limit[t])
       THEN /\ rlimit' = original_limit[t]
            /\ UNCHANGED g_exc
       ELSE /\ g_exc' = [g_exc EXCEPT ![t] = "ValueError"]
            /\ UNCHANGED rlimit
  /\ g_pc' = [g_pc EXCEPT ![t] = "exit"]
  /\ UNCHANGED <<g_started, g_ambient, g_byte, g_need, original_limit, g_before,
                 g_ineffect, g_result, g_calls, g_last>>

\* GExit with the exception in flight dropped: wrapper returns `result`
GExitMutant(t) ==
  /\ g_pc[t] = "exit"
  /\ g_last' = [caller |-> t, byte |-> g_byte[t],
                outcome |-> Ret(g_result[t]),
                before |-> g_before[t], after |-> rlimit,
                ineffect |-> g_ineffect[t], invoked |-> TRUE]
  /\ GLeave(t)
  /\ UNCHANGED <<rlimit, g_started, g_ambient, g_calls>>

\* line 239: return result, or the exception in flight is raised again
GExit(t) ==
  /\ g_pc[t] = "exit"
  /\ g_last' = [caller |-> t, byte |-> g_byte[t],
                outcome |-> IF g_exc[t] = "none" THEN Ret(g_result[t])
                                                ELSE Raise(g_exc[t]),
                before |-> g_before[t], after |-> rlimit,
                ineffect |-> g_ineffect[t], invoked |-> TRUE]
  /\ GLeave(t)
  /\ UNCHANGED <<rlimit, g_started, g_ambient, g_calls>>

GOutcomes == FuncOutcomes \cup {Raise("MemoryError")}

GStep(t) ==
  \/ \E b \in ByteChoices, need \in Needs : GCall(t, b, need) /\ GFrame
  \/ GGetrlimit(t) /\ GFrame
  \/ GSetrlimit(t) /\ GFrame
  \/ GInvoke(t) /\ GFrame
  \/ \E o \in GOutcomes : GFinish(t, o) /\ GFrame
  \/ GRestore(t) /\ GFrame
  \/ GExit(t) /\ GFrame

GEnv == \E soft \in Limits, hard \in Limits : GAmbient(soft, hard) /\ GFrame

\* Calls made by callers that run at the same time: at most
\* MaxConcurrentCalls in a behaviour
MaxConcurrentCalls == 2

GCallConcurrent(t, b, need) ==
  /\ g_calls < MaxConcurrentCalls
  /\ GCall(t, b, need)

\* A step of caller t when other callers' steps may come between its own
GStepConcurrent(t) ==
  \/ \E b \in ByteChoices, need \in Needs : GCallConcurrent(t, b, need) /\ GFrame
  \/ GGetrlimit(t) /\ GFrame
  \/ GSetrlimit(t) /\ GFrame
  \/ GInvoke(t) /\ GFrame
  \/ \E o \in GOutcomes : GFinish(t, o) /\ GFrame
  \/ GRestore(t) /\ GFrame
  \/ GExit(t) /\ GFrame

(***************************************************************************)
(* threaded (deco.py 243-262)                                              *)
(*                                                                         *)
(* func is the unit of the library's fan-out test: it adds one to a shared *)
(* counter under a lock, then returns or raises.  An exception of func     *)
(* ends its thread and nothing else.                                       *)
(***************************************************************************)
MaxThreads == 3
ThreadsChoices == (-1)..MaxThreads

FInit ==
  /\ num_threads = 0
  /\ f_pc = "nowrap"
  /\ f_args = 0
  /\ threads = <<>>
  /\ f_j = 1
  /\ counter = 0
  /\ f_out = NoOutcome

\* threaded(num_threads)(func): the decorator is applied
FWrap(n) ==
  /\ f_pc = "nowrap"
  /\ num_threads' = n
  /\ f_pc' = "idle"
  /\ UNCHANGED <<f_args, threads, f_j, counter, f_out>>

\* The caller enters wrapper(*args, **kwargs).  line 254: threads = []
FCall(a) ==
  /\ f_pc = "idle"
  /\ f_args' = a
  /\ threads' = <<>>
  /\ f_pc' = "launch"
  /\ UNCHANGED <<num_threads, f_j, counter, f_out>>

\* line 255-258: one iteration of the first loop: a thread that will run
\* func(*args, **kwargs) is created, started and appended
FStart ==
  /\ f_pc = "launch"
  /\ Len(threads) < num_threads
  /\ threads' = Append(threads, [st |-> "started", args |-> f_args])
  /\ UNCHANGED <<num_threads, f_pc, f_args, f_j, counter, f_out>>

\* line 257: t.start() raises RuntimeError (the system starts no more
\* threads); the exception leaves wrapper, the threads started stay
FStartFail ==
  /\ f_pc = "launch"
  /\ Len(threads) < num_threads
  /\ f_out' = Raise("RuntimeError")
  /\ f_pc' = "done"
  /\ UNCHANGED <<num_threads, f_args, threads, f_j, counter>>

\* line 255, 259: range(num_threads) is exhausted; the second loop starts
FLaunched ==
  /\ f_pc = "launch"
  /\ Len(threads) >= num_threads
  /\ f_j' = 1
  /\ f_pc' = "join"
  /\ UNCHANGED <<num_threads, f_args, threads, counter, f_out>>

\* Thread i runs func: the counter is incremented
WorkerIncrement(i) ==
  /\ i \in DOMAIN threads
  /\ threads[i].st = "started"
  /\ counter' = counter + 1
  /\ threads' = [threads EXCEPT ![i].st = "counted"]
  /\ UNCHANGED <<num_threads, f_pc, f_args, f_j, f_out>>

\* Thread i: func ends with outcome o, and the thread with it
WorkerFinish(i, o) ==
  /\ i \in DOMAIN threads
  /\ threads[i].st = "counted"
  /\ threads' = [threads EXCEPT ![i].st = IF o.kind = "return" THEN "returned"
                                                               ELSE "raised"]
  /\ UNCHANGED <<num_threads, f_pc, f_args, f_j, counter, f_out>>

Dead(th) == th.st \in {"returned", "raised"}

\* FJoin with a join that does not wait for the thread to end
FJoinMutant ==
  /\ f_pc = "join"
  /\ f_j <= Len(threads)
  /\ f_j' = f_j + 1
  /\ UNCHANGED <<num_threads, f_pc, f_args, threads, counter, f_out>>

\* line 259-260: t.join() returns once thread f_j has ended
FJoin ==
  /\ f_pc = "join"
  /\ f_j <= Len(threads)
  /\ Dead(threads[f_j])
  /\ f_j' = f_j + 1
  /\ UNCHANGED <<num_threads, f_pc, f_args, threads, counter, f_out>>

\* line 261: the second loop is over; wrapper returns None
FReturn ==
  /\ f_pc = "join"
  /\ f_j > Len(threads)
  /\ f_out' = Ret(None)
  /\ f_pc' = "done"
  /\ UNCHANGED <<num_threads, f_args, threads, f_j, counter>>

FStep ==
  \/ \E n \in ThreadsChoices : FWrap(n) /\ FFrame
  \/ \E a \in Args : FCall(a) /\ FFrame
  \/ FStart /\ FFrame
  \/ FStartFail /\ FFrame
  \/ FLaunched /\ FFrame
  \/ \E i \in 1..MaxThreads : WorkerIncrement(i) /\ FFrame
  \/ \E i \in 1..MaxThreads, o \in FuncOutcomes : WorkerFinish(i, o) /\ FFrame
  \/ FJoin /\ FFrame
  \/ FReturn /\ FFrame

\* No nested unit has been wrapped
NInit ==
  /\ n_seconds = 0
  /\ n_pc = "nowrap"
  /\ n_old_handler = "SIG_DFL"
  /\ n_exc = "none"
  /\ n_result = None
  /\ n_out = NoOutcome
  /\ n_worked = 0

Init == SInit /\ MInit /\ RInit /\ TInit /\ GInit /\ FInit /\ NInit

(***************************************************************************)
(* Specifications: one decorator at work, called by several threads or by  *)
(* one.                                                                    *)
(***************************************************************************)
SingletonNext == \E t \in Callers : SStep(t)
SpecSingleton == Init /\ [][SingletonNext]_vars

SingletonSeqNext == SStep(1)
SpecSingletonSeq == Init /\ [][SingletonSeqNext]_vars

MemoizeNext == \E t \in Callers : MStep(t)
SpecMemoize == Init /\ [][MemoizeNext]_vars

MemoizeSeqNext == MStep(1)
SpecMemoizeSeq == Init /\ [][MemoizeSeqNext]_vars

RetryNext == RStep
SpecRetry == Init /\ [][RetryNext]_vars

TimeoutNext == TStep
SpecTimeout == Init /\ [][TimeoutNext]_vars

MaxMemorySeqNext == GStep(1) \/ GEnv
SpecMaxMemorySeq == Init /\ [][MaxMemorySeqNext]_vars

MaxMemoryNext == (\E t \in Callers : GStepConcurrent(t)) \/ GEnv
SpecMaxMemory == Init /\ [][MaxMemoryNext]_vars

(***************************************************************************)
(* timeout(seconds)(retry_on_failure(runs)(func)): the unit the timeout    *)
(* wrapper calls on line 213 is the wrapper of retry_on_failure (deco.py   *)
(* 81-87), which runs in the same thread.  TimeoutError derives from       *)
(* Exception.                                                              *)
(***************************************************************************)

\* timeout(d) is applied to the unit retry_on_failure(runs) has wrapped
TRWrap(d) ==
  /\ r_pc = "idle"
  /\ TWrap(d)

\* line 213 calls the wrapper of retry_on_failure
TRInvoke ==
  /\ TInvoke
  /\ RCall

\* line 82-87, while line 213 of the timeout wrapper waits for them
TRLoop == t_pc = "inner" /\ RLoop
TRFinish(o) == t_pc = "inner" /\ RFinish(o)
TRExcept == t_pc = "inner" /\ RExcept

\* line 84-85: timeout_handler raises TimeoutError while func is running,
\* inside the try statement of the retry wrapper: `except Exception` catches
\* it as it catches a failure of func
TRHandlerCaught ==
  /\ t_sig
  /\ handler = "timeout_handler"
  /\ t_pc = "inner"
  /\ r_pc = "running"
  /\ t_sig' = FALSE
  /\ r_attempts' = Append(r_attempts, Raise("TimeoutError"))
  /\ r_pc' = "except"
  /\ UNCHANGED <<runs, r_i, r_out, r_calls>>
  /\ UNCHANGED <<seconds, t_pc, handler, old_handler, alarm, t_exc, t_result,
                 t_out, t_inner, t_first, t_calls>>

\* line 82, 86-87: timeout_handler raises TimeoutError in the retry wrapper
\* outside its try block; the exception leaves the retry wrapper and enters
\* the finally block of the timeout wrapper
TRHandlerThrough ==
  /\ r_pc \in {"loop", "except"}
  /\ t_pc = "inner"
  /\ THandler
  /\ r_out' = Raise("TimeoutError")
  /\ r_pc' = "done"
  /\ UNCHANGED <<runs, r_i, r_attempts, r_calls>>

\* line 208-209 when the retry wrapper is not on the stack
TRHandler ==
  /\ t_pc = "inner" => r_pc = "done"
  /\ THandler

\* line 213: the retry wrapper has ended; its outcome is the inner outcome
TRReturn ==
  /\ r_pc = "done"
  /\ TInnerFinish(r_out)

TRFrame == UNCHANGED <<sVars, mVars, gVars, fVars, nVars>>

TRStep ==
  \/ \E n \in RunsChoices : RWrap(n) /\ RFrame
  \/ \E d \in SecondsChoices : TRWrap(d) /\ TFrame
  \/ TCall /\ TFrame
  \/ TSetHandler /\ TFrame
  \/ TAlarm /\ TFrame
  \/ TRInvoke /\ TRFrame
  \/ TRLoop /\ RFrame
  \/ \E o \in FuncOutcomes : TRFinish(o) /\ RFrame
  \/ TRExcept /\ RFrame
  \/ TRReturn /\ TFrame
  \/ TTick /\ TFrame
  \/ TRHandlerCaught /\ TRFrame
  \/ TRHandlerThrough /\ TRFrame
  \/ TRHandler /\ TFrame
  \/ TCancelAlarm /\ TFrame
  \/ TRestore /\ TFrame
  \/ TExit /\ TFrame

SpecTimeoutRetry == Init /\ [][TRStep]_vars

(***************************************************************************)
(* timeout(seconds)(work) where work calls timeout(n_seconds)(func) and    *)
(* then goes on: two activations of the wrapper of deco.py 207-217 in one  *)
(* thread.  Each has its own locals and its own timeout_handler; the       *)
(* process has one SIGALRM handler and one alarm, and signal.alarm         *)
(* replaces the alarm that is pending.                                     *)
(***************************************************************************)
MaxWorked == MaxSeconds + 1

\* The frame of the outer wrapper, apart from what the two frames share
NOuterLocals == <<seconds, t_pc, old_handler, t_exc, t_result, t_out, t_inner,
                  t_first, t_calls>>

\* timeout(d)(func): the decorator is applied to the nested unit
NWrap(d) ==
  /\ n_pc = "nowrap"
  /\ n_seconds' = d
  /\ n_pc' = "idle"
  /\ UNCHANGED <<n_old_handler, n_exc, n_result, n_out, n_worked>>

\* timeout(d)(work): the decorator is applied to the work that calls the
\* nested unit
NOuterWrap(d) ==
  /\ n_pc = "idle"
  /\ TWrap(d)

\* The caller enters the outer wrapper; its work has neither run nor called
\* the nested unit.
NOuterCall ==
  /\ TCall
  /\ n_pc' = "idle"
  /\ n_old_handler' = "SIG_DFL"
  /\ n_exc' = "none"
  /\ n_result' = None
  /\ n_out' = NoOutcome
  /\ n_worked' = 0
  /\ UNCHANGED n_seconds

\* The work of the outer wrapper calls the nested unit.
NCall ==
  /\ t_pc = "inner"
  /\ n_pc = "idle"
  /\ n_pc' = "signal"
  /\ UNCHANGED <<n_seconds, n_old_handler, n_exc, n_result, n_out, n_worked>>
  /\ UNCHANGED tVars

\* line 210 in the nested wrapper; signal.signal runs the handler of a noted
\* signal before it changes the handler
NSetHandler ==
  /\ n_pc = "signal"
  /\ ~t_sig
  /\ n_old_handler' = handler
  /\ handler' = "nested_timeout_handler"
  /\ n_pc' = "alarm"
  /\ UNCHANGED <<n_seconds, n_exc, n_result, n_out, n_worked>>
  /\ UNCHANGED <<alarm, t_sig>>
  /\ UNCHANGED NOuterLocals

\* line 211 in the nested wrapper: signal.alarm(seconds) replaces the alarm
\* of the outer wrapper
NAlarm ==
  /\ n_pc = "alarm"
  /\ alarm' = n_seconds
  /\ n_pc' = "try"
  /\ UNCHANGED <<n_seconds, n_old_handler, n_exc, n_result, n_out, n_worked>>
  /\ UNCHANGED <<handler, t_sig>>
  /\ UNCHANGED NOuterLocals

\* line 212-213 in the nested wrapper
NInvoke ==
  /\ n_pc = "try"
  /\ n_pc' = "inner"
  /\ UNCHANGED <<n_seconds, n_old_handler, n_exc, n_result, n_out, n_worked>>
  /\ UNCHANGED tVars

\* line 213 in the nested wrapper: func ends on its own with outcome o
NInnerFinish(o) ==
  /\ n_pc = "inner"
  /\ n_result' = o.value
  /\ n_exc' = o.exc
  /\ n_pc' = "finally_alarm"
  /\ UNCHANGED <<n_seconds, n_old_handler, n_out, n_worked>>
  /\ UNCHANGED tVars

\* line 215 in the nested wrapper: signal.alarm(0)
NCancelAlarm ==
  /\ n_pc = "finally_alarm"
  /\ alarm' = 0
  /\ n_pc' = "finally_restore"
  /\ UNCHANGED <<n_seconds, n_old_handler, n_exc, n_result, n_out, n_worked>>
  /\ UNCHANGED <<handler, t_sig>>
  /\ UNCHANGED NOuterLocals

\* line 216 in the nested wrapper: signal.signal(signal.SIGALRM, old_handler)
NRestore ==
  /\ n_pc = "finally_restore"
  /\ ~t_sig
  /\ handler' = n_old_handler
  /\ n_pc' = "exit"
  /\ UNCHANGED <<n_seconds, n_old_handler, n_exc, n_result, n_out, n_worked>>
  /\ UNCHANGED <<alarm, t_sig>>
  /\ UNCHANGED NOuterLocals

\* line 217 in the nested wrapper: its value goes to the work of the outer
\* wrapper, which goes on; its exception ends that work, which does not
\* catch it, and the finally block of the outer wrapper is entered
NExit ==
  /\ n_pc = "exit"
  /\ n_pc' = "done"
  /\ IF n_exc = "none"
       THEN /\ n_out' = Ret(n_result)
            /\ UNCHANGED tVars
       ELSE /\ n_out' = Raise(n_exc)
            /\ t_exc' = n_exc
            /\ t_pc' = "finally_alarm"
            /\ UNCHANGED <<seconds, handler, old_handler, alarm, t_sig,
                           t_result, t_out, t_inner, t_first, t_calls>>
  /\ UNCHANGED <<n_seconds, n_old_handler, n_exc, n_result, n_worked>>

\* line 208-209: a handler of either wrapper raises TimeoutError while the
\* nested wrapper is the running frame.  With func running, the finally
\* block of the nested wrapper is entered; anywhere else in the nested
\* wrapper the exception leaves it and ends the work of the outer wrapper.
NHandler ==
  /\ t_sig
  /\ handler # "SIG_DFL"
  /\ t_pc = "inner"
  /\ n_pc \in {"signal", "alarm", "try", "inner", "finally_alarm",
               "finally_restore", "exit"}
  /\ t_sig' = FALSE
  /\ IF n_pc = "inner"
       THEN /\ n_exc' = "TimeoutError"
            /\ n_pc' = "finally_alarm"
            /\ UNCHANGED <<n_out, t_exc, t_pc>>
       ELSE /\ n_out' = Raise("TimeoutError")
            /\ n_pc' = "done"
            /\ t_exc' = "TimeoutError"
            /\ t_pc' = "finally_alarm"
            /\ UNCHANGED n_exc
  /\ UNCHANGED <<n_seconds, n_old_handler, n_result, n_worked>>
  /\ UNCHANGED <<seconds, handler, old_handler, alarm, t_result, t_out,
                 t_inner, t_first, t_calls>>

\* line 208-209 when the nested wrapper is not on the stack
NOuterHandler ==
  /\ t_pc = "inner" => n_pc \in {"idle", "done"}
  /\ THandler

\* line 213 of the outer wrapper: its work, which has called the nested unit
\* and got a value from it, ends on its own with outcome o
NWorkFinish(o) ==
  /\ n_pc = "done"
  /\ TInnerFinish(o)

\* A second passes: the pending alarm, if there is one, gets a second nearer
\* (TTick), and the work of the outer wrapper, if it is running, has run for
\* a second more.
NTick ==
  /\ t_pc \in {"try", "inner", "finally_alarm", "finally_restore"}
  /\ alarm > 0 \/ t_pc = "inner"
  /\ t_pc = "inner" => n_worked < MaxWorked
  /\ n_worked' = IF t_pc = "inner" THEN n_worked + 1 ELSE n_worked
  /\ IF alarm > 0 THEN TTick ELSE UNCHANGED tVars
  /\ UNCHANGED <<n_seconds, n_pc, n_old_handler, n_exc, n_result, n_out>>

NFrame == UNCHANGED <<sVars, mVars, rVars, gVars, fVars>>

NStep ==
  \/ \E d \in SecondsChoices : NWrap(d) /\ UNCHANGED tVars /\ NFrame
  \/ \E d \in SecondsChoices : NOuterWrap(d) /\ TFrame
  \/ NOuterCall /\ NFrame
  \/ TSetHandler /\ TFrame
  \/ TAlarm /\ TFrame
  \/ TInvoke /\ TFrame
  \/ NCall /\ NFrame
  \/ NSetHandler /\ NFrame
  \/ NAlarm /\ NFrame
  \/ NInvoke /\ NFrame
  \/ \E o \in FuncOutcomes : NInnerFinish(o) /\ NFrame
  \/ NCancelAlarm /\ NFrame
  \/ NRestore /\ NFrame
  \/ NExit /\ NFrame
  \/ NHandler /\ NFrame
  \/ NOuterHandler /\ TFrame
  \/ \E o \in FuncOutcomes : NWorkFinish(o) /\ TFrame
  \/ NTick /\ NFrame
  \/ TCancelAlarm /\ TFrame
  \/ TRestore /\ TFrame
  \/ TExit /\ TFrame

SpecTimeoutNested == Init /\ [][NStep]_vars

ThreadedNext == FStep
SpecThreaded == Init /\ [][ThreadedNext]_vars

(***************************************************************************)
(* Properties                                                              *)
(***************************************************************************)

\* C1 (singleton, concurrent callers): under every interleaving at most one
\* caller evaluates `self.ran` to False, so func is invoked at most once.
C1_AtMostOneObservesFalse == s_sawFalse <= 1 /\ Len(s_invoked) <= 1

\* C2 (singleton, sequential calls): the first call invokes func with its
\* arguments and hands func's outcome to the caller; every later call, with
\* any arguments, fails with "This function has already been run", and func
\* is never invoked a second time.
C2_SequentialCalls ==
  /\ Len(s_invoked) <= 1
  /\ \A i \in 1..Len(s_log) :
       IF i = 1
         THEN /\ Len(s_invoked) = 1
              /\ s_invoked[1] = s_log[1].args
              /\ Len(s_returned) = 1
              /\ s_log[1].outcome = s_returned[1]
         ELSE s_log[i].outcome = Raise(AlreadyRun)

C2_Witness ==
  /\ Len(s_log) >= 2
  /\ s_log[1].outcome.kind = "return"
  /\ s_log[2].outcome = Raise(AlreadyRun)
  /\ s_log[2].args # s_log[1].args

\* C3 (timeout): when a call has ended, the caller got func's own outcome
\* if func ended before the alarm expired, and TimeoutError if the alarm
\* expired first.
C3_DeadlineOutcome ==
  t_pc = "done" =>
    /\ (t_first = "inner" => t_out = t_inner)
    /\ (t_first = "timer" => t_out = Raise("TimeoutError"))

\* C4 (max_memory, sequential calls): when a call has ended, whatever its
\* outcome, RLIMIT_AS is what it was when the call was entered; func was
\* entered, and runs, under the soft limit `byte`.
C4_RestoreAfterCall ==
  /\ (g_last.caller # 0 => g_last.after = g_last.before)
  /\ (g_last.caller # 0 /\ g_pc[1] = "idle" => rlimit = g_last.before)
  /\ (g_last.caller # 0 /\ g_last.invoked => g_last.ineffect = g_last.byte)
  /\ (g_pc[1] = "running" => rlimit[1] = g_byte[1])

C4_Witness ==
  /\ g_last.caller # 0
  /\ g_last.invoked
  /\ g_last.outcome = Raise("MemoryError")
  /\ g_last.before[1] # g_last.byte
  /\ g_calls >= 2

\* C5 (threaded, num_threads >= 1): when the call has returned, exactly
\* num_threads threads were started, each with the caller's arguments, every
\* one of them has ended, and the counter shows num_threads increments.
C5_FanOutCompletion ==
  (f_pc = "done" /\ f_out = Ret(None) /\ num_threads >= 1) =>
    /\ Len(threads) = num_threads
    /\ \A i \in 1..Len(threads) : Dead(threads[i]) /\ threads[i].args = f_args
    /\ counter = num_threads

C5_Witness ==
  /\ f_pc = "done"
  /\ f_out = Ret(None)
  /\ num_threads >= 2
  /\ \E i \in 1..Len(threads) : threads[i].st = "raised"
  /\ \E i \in 1..Len(threads) : threads[i].st = "returned"


C7_RetrierSuccess ==
  \A k \in 1..Len(r_attempts) :
    r_attempts[k].kind = "return" =>
      /\ k = Len(r_attempts)
      /\ k <= runs
      /\ r_pc = "done"
      /\ r_out = r_attempts[k]
      /\ \A j \in 1..(k - 1) : r_attempts[j] = Raise("Exception")

C7_Witness ==
  /\ r_pc = "done"
  /\ runs = 3
  /\ Len(r_attempts) = 2
  /\ r_attempts[1].kind = "raise"
  /\ r_out = Ret(2)

\* The finished calls before call i that had the arguments of call i
MPrior(i) == {j \in 1..(i - 1) : m_log[j].args = m_log[i].args}

\* C8 (memoize, sequential calls): the first call with given arguments
\* invokes func exactly once; once a call with these arguments has stored
\* func's value, every later call with them returns that same value and
\* invokes func zero times.
C8_MemoizerSequential ==
  \A i \in 1..Len(m_log) :
    /\ MPrior(i) = {} => m_log[i].invocations = 1
    /\ \A j \in MPrior(i) :
         m_log[j].outcome.kind = "return" =>
           /\ m_log[i].outcome = m_log[j].outcome
           /\ m_log[i].invocations = 0

C8_Witness ==
  /\ Len(m_log) = 3
  /\ m_log[1].args = m_log[3].args
  /\ m_log[2].args # m_log[1].args
  /\ m_log[1].outcome.kind = "return"
  /\ m_log[2].outcome.kind = "return"
  /\ m_log[2].outcome # m_log[1].outcome
  /\ m_log[3].invocations = 0

\* Callers that found the arguments a missing from the cache and have not
\* yet stored a value for them
MMissing(a) == {t \in Callers : m_args[t] = a /\ m_pc[t] \in {"invoke", "running", "store"}}

\* C9 (memoize, concurrent callers): no two callers treat the same arguments
\* as a miss at the same time.
C9_NoDoubleMiss == \A a \in Args : Cardinality(MMissing(a)) <= 1

\* C10 (memoize, failure path): a call in which func fails hands func's
\* failure to the caller; arguments are in the cache only after a call with
\* them returned (or is about to return) a value of func; the next call with
\* the arguments of a failed call invokes func again.
C10_FailureNotCached ==
  /\ \A a \in DOMAIN cache :
       \/ \E j \in 1..Len(m_log) : m_log[j].args = a /\ m_log[j].outcome.kind = "return"
       \/ m_pc[1] = "return" /\ m_args[1] = a
  /\ \A i \in 1..Len(m_log) :
       m_log[i].outcome.kind = "raise" =>
         /\ m_log[i].outcome \in {Raise(e) : e \in WorkFailures}
         /\ m_log[i].invocations = 1
         /\ \A j \in (i + 1)..Len(m_log) :
              (m_log[j].args = m_log[i].args /\ MPrior(j) \cap (i + 1)..(j - 1) = {})
                => m_log[j].invocations = 1

C10_Witness ==
  /\ Len(m_log) = 3
  /\ m_log[1].outcome.kind = "raise"
  /\ m_log[2].args = m_log[1].args
  /\ m_log[2].outcome.kind = "return"
  /\ m_log[2].invocations = 1
  /\ m_log[3].args = m_log[1].args
  /\ m_log[3].invocations = 0

\* C11 (retry_on_failure, configuration): the decorator is applied only
\* with runs >= 1, and no call ends without a single attempt of func.
C11_RunsValidated ==
  /\ (r_pc # "nowrap" => runs >= 1)
  /\ (r_pc = "done" => Len(r_attempts) >= 1)

\* C12 (timeout, max_memory, threaded, configuration): a decorator applied
\* with a zero or negative argument yields no callable unit: no wrapped unit
\* exists whose duration, byte ceiling or thread count is below 1; a call
\* arms an alarm, and a fan-out that returned had at least one worker.
C12_ArgumentsValidated ==
  /\ (t_pc # "nowrap" => seconds >= 1)
  /\ (f_pc # "nowrap" => num_threads >= 1)
  /\ \A t \in Callers : g_pc[t] # "idle" => g_byte[t] >= 1
  /\ (t_pc = "inner" => alarm > 0 \/ t_sig)
  /\ (f_pc = "done" /\ f_out = Ret(None) => Len(threads) >= 1)

\* C13 (threaded, join on every path): when the call has ended, by a return
\* or by an exception raised while the threads were being started, no thread
\* it started is still running.
C13_JoinedOnEveryExit ==
  f_pc = "done" => \A i \in 1..Len(threads) : Dead(threads[i])

\* C16 (timeout, cleanup): when a call has ended, on whatever path, no alarm
\* is pending and the SIGALRM handler is the one that was installed before
\* the call.
C16_CleanupOnEveryExit ==
  t_pc = "done" => alarm = 0 /\ ~t_sig /\ handler = old_handler

\* The func of caller t asked for more address space than its ceiling
GBreach(t) == ~LimLeq(g_need[t], g_byte[t])

C19_OneShotAnyOutcome ==
  /\ ~ran
  /\ [][ran => ran']_vars
  /\ [](/\ (s_pc[1] \in {"invoke", "running"} => ran)
        /\ (Len(s_invoked) >= 1 => ran)
        /\ Len(s_invoked) <= 1
        /\ \A i \in 2..Len(s_log) :
             s_log[1].outcome.kind = "raise" => s_log[i].outcome = Raise(AlreadyRun))

C19_Witness ==
  /\ Len(s_log) = 3
  /\ s_log[1].outcome \in {Raise(e) : e \in WorkFailures}
  /\ s_log[2].outcome = Raise(AlreadyRun)
  /\ s_log[3].outcome = Raise(AlreadyRun)
  /\ Len(s_invoked) = 1
  /\ ran

\* C20 (memoize, sequential calls): no step removes a key from the cache or
\* changes the value stored for a key; a key is added only by line 64 of a
\* call that invoked func with this key and got a value, which is the value
\* stored.
C20_CacheMonotonic ==
  [][/\ DOMAIN cache \subseteq DOMAIN cache'
     /\ \A a \in DOMAIN cache : cache'[a] = cache[a]
     /\ \A a \in (DOMAIN cache') \ (DOMAIN cache) :
          /\ m_pc[1] = "store"
          /\ m_args[1] = a
          /\ m_inv[1] = 1
          /\ cache'[a] = m_result[1]]_vars

C20_Witness ==
  /\ Cardinality(DOMAIN cache) = 2
  /\ Len(m_log) = 2
  /\ m_log[1].outcome.kind = "raise"
  /\ m_log[2].outcome.kind = "return"
  /\ m_log[2].invocations = 1
  /\ m_pc[1] = "return"

\* C14 (max_memory, concurrent callers): func never runs under a soft limit
\* other than the byte of its own unit, and once every guarded call has
\* ended RLIMIT_AS is what it was before the first of them was entered.
C14_CeilingHeldExclusively ==
  /\ \A t \in Callers : g_pc[t] = "running" => rlimit[1] = g_byte[t]
  /\ (g_started /\ \A t \in Callers : g_pc[t] = "idle") => rlimit = g_ambient

\* C18 (timeout around retry_on_failure): when the alarm expired while an
\* attempt other than the last one was running (runs >= 2), that attempt is
\* the last one started, and the call of the timeout wrapper ends with
\* TimeoutError.
C18_TimeoutEndsRetries ==
  \A k \in 1..Len(r_attempts) :
    (runs >= 2 /\ k < runs /\ r_attempts[k] = Raise("TimeoutError")) =>
      /\ Len(r_attempts) = k
      /\ r_pc # "running"
      /\ (t_pc = "done" => t_out = Raise("TimeoutError"))

\* C17 (timeout inside timeout): when the nested unit, wrapped with fewer
\* seconds than the outer one, has handed a value to the work of the outer
\* wrapper and that work has run for more than the outer wrapper's seconds,
\* the call of the outer wrapper ends with TimeoutError.
C17_OuterDeadlineInForce ==
  (/\ t_pc = "done"
   /\ n_pc = "done"
   /\ n_out.kind = "return"
   /\ n_seconds >= 1
   /\ n_seconds < seconds
   /\ n_worked > seconds)
    => t_out = Raise("TimeoutError")

=============================================================================
